---- MODULE Spec2Model ----
(***************************************************************************)
(* Model of lambda/download_and_predict/base.py: class DownloadAndPredict. *)
(* Every method is modelled as the code computes it; a loop body whose     *)
(* interleaving with the network matters is one action per iteration.      *)
(* Numbers: geographic coordinates are integers in 1/10000 degree; the     *)
(* affine coefficients width/256 and height/256 are kept as exact          *)
(* fractions with denominator 256 (floating point rounding is not          *)
(* modelled).                                                              *)
(***************************************************************************)
EXTENDS Integers, Sequences, FiniteSets, TLC

VARIABLES
    pc,          \* where the call in progress stands
    event,       \* get_tiles: the SQS event's record bodies
    tiles,       \* the list of tiles a call is given
    det_box,     \* the normalized box of one detection, for its geometry
    meta,        \* self.meta
    model_type,  \* what get_meta returned
    payload,     \* the payload a post-prediction call is given
    inferences,  \* cl_post_prediction: the label names
    idx,         \* the number of finished passes of the loop over the tiles
    quad,        \* get_supertiles_images: the pass of the inner loops
    fetches,     \* the imagery requests made, with their outcomes
    yielded,     \* what a generator has yielded so far
    calls,       \* the bodies posted to the predict endpoint
    response,    \* r: the outcome of the latest predict call, once it is in
    pred_list,   \* the local pred_list of a post-prediction call
    emitted,     \* od_post_prediction: the records appended in each pass
    result,      \* the value the call returned
    sink,        \* the bodies posted to the result store
    err          \* the exception that ended the call

vars == <<pc, event, tiles, det_box, meta, model_type, payload, inferences, idx, quad,
          fetches, yielded, calls, response, pred_list, emitted, result, sink, err>>

\* ------------------------------------------------------------------ bounds

\* longest batch of tiles / SQS records handed to one call
MaxBatch == 2
\* largest num_detections a model server response reports
MaxDet == 2
\* deepest zoom of the tiles whose geometry is computed
MaxZoom == 2

\* ------------------------------------------------- values shared by all paths

NoValue == "NoValue"
NoError == "NoError"

\* the value a call returned, and the state of a call that has not returned
Returned(v) == [returned |-> TRUE, value |-> v]
NoResult == [returned |-> FALSE, value |-> <<>>]

\* no predict call made, or the latest one not answered yet
NoResponse == [kind |-> "none", status |-> 0, content |-> <<>>]

\* the enum ModelType
OBJECT_DETECT == "OBJECT_DETECT"
CLASSIFICATION == "CLASSIFICATION"

\* mercantile.Tile: a namedtuple (x, y, z)
Tile(x, y, z) == [x |-> x, y |-> y, z |-> z]

\* the tiles the batches are drawn from: zooms 0..2, with x # y cases
TileUniverse == {Tile(0, 0, 0), Tile(1, 0, 1), Tile(0, 1, 1), Tile(2, 1, 2)}

Pow2(n) == IF n = 0 THEN 1 ELSE IF n = 1 THEN 2 ELSE IF n = 2 THEN 4 ELSE 8

SeqsUpTo(S, n) == UNION {[1..k -> S] : k \in 0..n}

TileLists == SeqsUpTo(TileUniverse, MaxBatch)

\* mercantile.quadkey(x, y, z): one digit per zoom level, from the top bit
\* down: 1 for the x bit plus 2 for the y bit
RECURSIVE QuadkeyDigits(_, _, _)
QuadkeyDigits(x, y, zl) ==
    IF zl = 0 THEN <<>>
    ELSE LET mask == Pow2(zl - 1)
             digit == ((x \div mask) % 2) + 2 * ((y \div mask) % 2)
         IN <<digit>> \o QuadkeyDigits(x, y, zl - 1)

quadkey(x, y, z) == QuadkeyDigits(x, y, z)

\* ---------------------------------------------------------------- get_tiles

\* json.loads of a record body: an object whose members keep the order of the
\* text; modelled as the sequence of its <<key, value>> members
Body(order, t) == [k \in 1..3 |-> <<order[k], t[order[k]]>>]

FieldOrders == { <<"x", "y", "z">>, <<"x", "z", "y">>, <<"y", "x", "z">>,
                 <<"y", "z", "x">>, <<"z", "x", "y">>, <<"z", "y", "x">> }

Bodies == {Body(o, t) : o \in FieldOrders, t \in TileUniverse}

\* dict.values(): the values in member order
Values(body) == [k \in 1..Len(body) |-> body[k][2]]

\* the value of field key in a body
Field(body, key) == LET k == CHOOSE k \in 1..Len(body) : body[k][1] = key
                    IN body[k][2]

\* Tile(*values): the positional constructor of the namedtuple
TileFromValues(v) == Tile(v[1], v[2], v[3])

get_tiles(ev) == [i \in 1..Len(ev) |-> TileFromValues(Values(ev[i]))]

\* the state before a call: the call's arguments set, everything else empty
InitWith(p, ev, ts, mt, pl, inf) ==
    /\ pc = p /\ event = ev /\ tiles = ts /\ model_type = mt
    /\ payload = pl /\ inferences = inf
    /\ det_box = <<>> /\ meta = NoValue /\ idx = 0 /\ quad = 0
    /\ fetches = <<>> /\ yielded = <<>> /\ calls = <<>> /\ response = NoResponse
    /\ pred_list = <<>> /\ emitted = <<>> /\ result = NoResult /\ sink = <<>> /\ err = NoError

InitTiles ==
    \E ev \in SeqsUpTo(Bodies, MaxBatch) :
        InitWith("get_tiles", ev, <<>>, NoValue, <<>>, <<>>)

GetTiles ==
    /\ pc = "get_tiles"
    /\ tiles' = get_tiles(event)
    /\ result' = Returned(tiles')
    /\ pc' = "returned"
    /\ UNCHANGED <<event, det_box, meta, model_type, payload, inferences, idx, quad,
                   fetches, yielded, calls, response, pred_list, emitted, sink, err>>

NextTiles == GetTiles

SpecTiles == InitTiles /\ [][NextTiles]_vars

\* C8: get_tiles returns one Tile per message, in message order, whose x, y
\* and z are the message's x, y and z fields, whatever the order of the three
\* fields inside the body.
C8_FieldsByName ==
    (pc = "returned") =>
        /\ Len(result.value) = Len(event)
        /\ \A i \in 1..Len(event) :
              /\ result.value[i].x = Field(event[i], "x")
              /\ result.value[i].y = Field(event[i], "y")
              /\ result.value[i].z = Field(event[i], "z")

\* ------------------------------------------------------------ HTTP round trips

\* what requests.get / requests.post gives: a response with a status and a
\* body, or an exception raised by the transport
Response(status, content) == [kind |-> "response", status |-> status, content |-> content]
ConnectionError == [kind |-> "ConnectionError", status |-> 0, content |-> <<>>]

StatusCodes == {200, 404, 500}

\* Response.raise_for_status(): HTTPError for a 4xx or 5xx status
RaisesForStatus(r) == r.status >= 400 /\ r.status < 600

\* ------------------------------------------------------------------- get_meta

\* the bodies the metadata endpoint may send: the input names of the
\* serving_default signature, or a document without the signature
MetaBodies == { [signature |-> TRUE, inputs |-> {"inputs"}],
                [signature |-> TRUE, inputs |-> {"image_bytes"}],
                [signature |-> TRUE, inputs |-> {}],
                [signature |-> FALSE, inputs |-> {}] }

MetaOutcomes == {Response(s, b) : s \in {200, 500}, b \in MetaBodies} \cup {ConnectionError}

\* the model type get_meta returns for a metadata document
ModelTypeOf(m) == IF "inputs" \in m.inputs THEN OBJECT_DETECT ELSE CLASSIFICATION

GetMeta ==
    /\ pc = "get_meta"
    /\ \E r \in MetaOutcomes :
          IF r.kind = "ConnectionError"
          THEN /\ err' = "ConnectionError" /\ pc' = "error"
               /\ UNCHANGED <<meta, model_type>>
          ELSE IF RaisesForStatus(r)
          THEN /\ err' = "HTTPError" /\ pc' = "error"
               /\ UNCHANGED <<meta, model_type>>
          ELSE IF ~r.content.signature
          THEN /\ meta' = r.content /\ err' = "KeyError" /\ pc' = "error"
               /\ UNCHANGED model_type
          ELSE /\ meta' = r.content
               /\ model_type' = ModelTypeOf(r.content)
               /\ pc' = "get_prediction_payload"
               /\ UNCHANGED err
    /\ UNCHANGED <<event, det_box, tiles, payload, inferences, idx, quad, fetches,
                   yielded, calls, response, pred_list, emitted, result, sink>>

\* ----------------------------------------------------------------- get_images

\* raster bodies an imagery endpoint may send (bytes), the empty body included
Rasters == { <<>>, <<137, 80, 78>>, <<255, 216>> }

FetchOutcomes == {Response(s, c) : s \in StatusCodes, c \in Rasters} \cup {ConnectionError}

\* a fetch whose outcome is a failure in the sense of the specification:
\* transport error, non-success status or empty body
FetchFailed(r) == r.kind # "response" \/ r.status # 200 \/ r.content = <<>>

\* a predict call that failed: transport error or error status
PredictFailed(r) == r.kind # "response" \/ RaisesForStatus(r)

\* self.imagery.format(x=tile.x, y=tile.y, z=tile.z)
ImageUrl(tile) == <<"imagery", tile.z, tile.x, tile.y>>

\* one iteration of the generator get_images: the request for the tile, then
\* the yield of (tile, r.content); the status of r is not looked at
GetImagesYield(tile, r) == [tile |-> tile, image |-> r.content]

GetImagesStep ==
    /\ pc = "get_images"
    /\ idx < Len(tiles)
    /\ \E r \in FetchOutcomes :
          /\ fetches' = Append(fetches, [url |-> ImageUrl(tiles[idx + 1]), r |-> r])
          /\ IF r.kind = "ConnectionError"
             THEN /\ err' = "ConnectionError" /\ pc' = "error"
                  /\ UNCHANGED <<yielded, idx>>
             ELSE /\ yielded' = Append(yielded, GetImagesYield(tiles[idx + 1], r))
                  /\ idx' = idx + 1
                  /\ UNCHANGED <<pc, err>>
    /\ UNCHANGED <<event, det_box, tiles, meta, model_type, payload, inferences, quad,
                   calls, response, pred_list, emitted, result, sink>>

\* the generator is exhausted: StopIteration
GetImagesStop ==
    /\ pc = "get_images"
    /\ idx = Len(tiles)
    /\ pc' = "exhausted"
    /\ UNCHANGED <<event, det_box, tiles, meta, model_type, payload, inferences, idx, quad,
                   fetches, yielded, calls, response, pred_list, emitted, result, sink, err>>

InitImages ==
    \E ts \in TileLists : InitWith("get_images", <<>>, ts, NoValue, <<>>, <<>>)

NextImages == GetImagesStep \/ GetImagesStop

SpecImages == InitImages /\ [][NextImages]_vars

\* C5: no (tile, bytes) pair is yielded for a response with a non-success
\* status or an empty body: such a fetch ends the batch with an error.
C5_NoYieldOnFailedFetch ==
    \A k \in 1..Len(fetches) :
        FetchFailed(fetches[k].r) => (Len(yielded) < k /\ pc = "error")

\* C4: the result store is posted to at most once, only by a run in which no
\* call failed, and with the complete record list; a failed metadata, imagery
\* or predict call aborts the run before anything is posted.
C4_NoPostAfterFailure ==
    /\ Len(sink) <= 1
    /\ (sink # <<>> => sink[1].predictions = pred_list)
    /\ ( (\/ \E k \in 1..Len(fetches) : FetchFailed(fetches[k].r)
          \/ (response.kind # "none" /\ PredictFailed(response)))
         => (pc = "error" /\ sink = <<>>) )

\* ------------------------------------------------------ get_supertiles_images

\* mercantile.children(tile, zoom=tile.z + 1): the four children in
\* mercantile's order (top-left, top-right, bottom-right, bottom-left)
children(t) == << Tile(2 * t.x, 2 * t.y, t.z + 1),
                  Tile(2 * t.x + 1, 2 * t.y, t.z + 1),
                  Tile(2 * t.x + 1, 2 * t.y + 1, t.z + 1),
                  Tile(2 * t.x, 2 * t.y + 1, t.z + 1) >>

\* the order of namedtuples: lexicographic on (x, y, z)
TileLess(a, b) ==
    \/ a.x < b.x
    \/ a.x = b.x /\ a.y < b.y
    \/ a.x = b.x /\ a.y = b.y /\ a.z < b.z

RECURSIVE InsertSorted(_, _)
InsertSorted(t, s) ==
    IF s = <<>> THEN <<t>>
    ELSE IF TileLess(t, Head(s)) THEN <<t>> \o s
    ELSE <<Head(s)>> \o InsertSorted(t, Tail(s))

RECURSIVE SortTiles(_)
\* list.sort()
SortTiles(s) == IF s = <<>> THEN <<>> ELSE InsertSorted(Head(s), SortTiles(Tail(s)))

\* rasterio.windows.Window(col_off, row_off, width, height)
Window(col_off, row_off, width, height) ==
    [col_off |-> col_off, row_off |-> row_off, width |-> width, height |-> height]

\* the q-th pass (q = 0..3) of "for i in range(2): for j in range(2)"
LoopI(q) == q \div 2
LoopJ(q) == q % 2

SuperWindow(q) == Window(LoopI(q) * 256, LoopJ(q) * 256, 256, 256)

\* the child tile the q-th pass yields: tile_indices[i + j] of the sorted children
SuperTileIndex(tile, q) == SortTiles(children(tile))[LoopI(q) + LoopJ(q) + 1]

\* the request for the tile's raster and the opening of the dataset;
\* MemoryFile.open raises on a body that is no raster
SuperFetch ==
    /\ pc = "get_supertiles_images"
    /\ idx < Len(tiles)
    /\ \E r \in FetchOutcomes :
          /\ fetches' = Append(fetches, [url |-> ImageUrl(tiles[idx + 1]), r |-> r])
          /\ IF r.kind = "ConnectionError"
             THEN /\ err' = "ConnectionError" /\ pc' = "error"
             ELSE IF r.content = <<>>
             THEN /\ err' = "RasterioIOError" /\ pc' = "error"
             ELSE /\ pc' = "supertile_windows" /\ UNCHANGED err
    /\ quad' = 0
    /\ UNCHANGED <<event, det_box, tiles, meta, model_type, payload, inferences, idx,
                   yielded, calls, response, pred_list, emitted, result, sink>>

\* one yield of the inner loops: (tile_indices[i + j], dataset.read(window))
SuperYield ==
    /\ pc = "supertile_windows"
    /\ yielded' = Append(yielded,
                         [tile |-> SuperTileIndex(tiles[idx + 1], quad),
                          image |-> [source |-> fetches[Len(fetches)].r.content,
                                     window |-> SuperWindow(quad)]])
    /\ IF quad = 3
       THEN /\ quad' = 0 /\ idx' = idx + 1 /\ pc' = "get_supertiles_images"
       ELSE /\ quad' = quad + 1 /\ UNCHANGED <<idx, pc>>
    /\ UNCHANGED <<event, det_box, tiles, meta, model_type, payload, inferences,
                   fetches, calls, response, pred_list, emitted, result, sink, err>>

SuperStop ==
    /\ pc = "get_supertiles_images"
    /\ idx = Len(tiles)
    /\ pc' = "exhausted"
    /\ UNCHANGED <<event, det_box, tiles, meta, model_type, payload, inferences, idx, quad,
                   fetches, yielded, calls, response, pred_list, emitted, result, sink, err>>

InitSuper ==
    \E ts \in TileLists : InitWith("get_supertiles_images", <<>>, ts, NoValue, <<>>, <<>>)

NextSuper == SuperFetch \/ SuperYield \/ SuperStop

SpecSuper == InitSuper /\ [][NextSuper]_vars

\* the input tile the k-th yield belongs to (four yields per tile)
ParentOfYield(k) == tiles[((k - 1) \div 4) + 1]

\* the child of parent p at the relative position of window w
ChildAtWindow(p, w) == Tile(2 * p.x + (w.col_off \div 256), 2 * p.y + (w.row_off \div 256), p.z + 1)

\* C3: every yielded (child tile, window) pair pairs the window with the child
\* at the same relative position in the parent, and once a tile's four pairs
\* are out each of its four children has been yielded exactly once.
C3_WindowMatchesChild ==
    /\ \A k \in 1..Len(yielded) :
          yielded[k].tile = ChildAtWindow(ParentOfYield(k), yielded[k].image.window)
    /\ \A n \in 1..idx :
          \A c \in {children(tiles[n])[m] : m \in 1..4} :
              Cardinality({k \in (4 * n - 3)..(4 * n) : yielded[k].tile = c}) = 1

\* ----------------------------------------------------- get_prediction_payload

\* base64 of one group of 1..3 bytes: four symbols, each a 6-bit index into
\* the alphabet, 64 standing for the padding "="
B64Group(g) ==
    LET b1 == g[1]
        b2 == IF Len(g) >= 2 THEN g[2] ELSE 0
        b3 == IF Len(g) >= 3 THEN g[3] ELSE 0
        n == b1 * 65536 + b2 * 256 + b3
    IN << n \div 262144,
          (n \div 4096) % 64,
          IF Len(g) >= 2 THEN (n \div 64) % 64 ELSE 64,
          IF Len(g) >= 3 THEN n % 64 ELSE 64 >>

RECURSIVE B64(_)
\* base64.b64encode
B64(bytes) ==
    IF bytes = <<>> THEN <<>>
    ELSE IF Len(bytes) <= 3 THEN B64Group(bytes)
    ELSE B64Group(SubSeq(bytes, 1, 3)) \o B64(SubSeq(bytes, 4, Len(bytes)))

\* b64encode(image_binary).decode('utf-8'): the same symbols, as text
b64encode_image(image_binary) == B64(image_binary)

\* the instance built for one image, by model type
Instance(mt, img) ==
    IF mt = CLASSIFICATION
    THEN [image_bytes |-> [b64 |-> b64encode_image(img)]]
    ELSE [inputs |-> [b64 |-> b64encode_image(img)]]

\* get_images is declared with @staticmethod and the parameters (self, tiles)
get_images_staticmethod == TRUE
get_images_parameters == <<"self", "tiles">>

\* the arguments a call through an instance hands to the function: a
\* staticmethod gets the call's arguments, a method gets the instance first
BoundArguments(static, args) == IF static THEN args ELSE <<"self">> \o args

\* Python binds positionally; a missing required argument is a TypeError
CallBinds(params, static, args) == Len(BoundArguments(static, args)) = Len(params)

\* the pairs the generator get_images gives for the fetch outcomes rs, when
\* no fetch raises
ImagePairs(ts, rs) == [i \in 1..Len(ts) |-> GetImagesYield(ts[i], rs[i])]

GetPredictionPayload ==
    /\ pc = "get_prediction_payload"
    /\ IF ~CallBinds(get_images_parameters, get_images_staticmethod, <<tiles>>)
       THEN \* self.get_images(tiles): the call itself fails
            /\ err' = "TypeError" /\ pc' = "error"
            /\ UNCHANGED <<fetches, yielded, payload, result>>
       ELSE \E rs \in [1..Len(tiles) -> FetchOutcomes] :
            /\ fetches' = [i \in 1..Len(tiles) |-> [url |-> ImageUrl(tiles[i]), r |-> rs[i]]]
            /\ IF \E i \in 1..Len(tiles) : rs[i].kind = "ConnectionError"
               THEN /\ err' = "ConnectionError" /\ pc' = "error"
                    /\ UNCHANGED <<yielded, payload, result>>
               ELSE IF tiles = <<>>
               THEN \* tile_indices, images = zip(*[]) has nothing to unpack
                    /\ err' = "ValueError" /\ pc' = "error"
                    /\ UNCHANGED <<yielded, payload, result>>
               ELSE LET pairs == ImagePairs(tiles, rs)
                        tile_indices == [i \in 1..Len(pairs) |-> pairs[i].tile]
                        images == [i \in 1..Len(pairs) |-> pairs[i].image]
                        instances == [i \in 1..Len(images) |-> Instance(model_type, images[i])]
                    IN /\ yielded' = pairs
                       /\ payload' = [instances |-> instances]
                       /\ result' = Returned(<<tile_indices, payload'>>)
                       /\ pc' = "returned"
                       /\ UNCHANGED err
    /\ UNCHANGED <<event, det_box, tiles, meta, model_type, inferences, idx, quad,
                   calls, response, pred_list, emitted, sink>>

InitPayload ==
    \E ts \in TileLists : InitWith("get_meta", <<>>, ts, NoValue, <<>>, <<>>)

NextPayload == GetMeta \/ GetPredictionPayload

SpecPayload == InitPayload /\ [][NextPayload]_vars

\* the call of get_prediction_payload is over
PayloadCallOver == model_type # NoValue /\ pc \in {"returned", "error"}

\* C9: get_prediction_payload returns the tiles in input order and as many
\* instances, the i-th the base64 of the raster fetched for the i-th tile,
\* wrapped under image_bytes.b64 for Classification and inputs.b64 for
\* ObjectDetection; only a transport failure of a fetch keeps it from returning.
C9_PayloadAligned ==
    PayloadCallOver =>
        \/ pc = "error" /\ err = "ConnectionError"
        \/ /\ pc = "returned"
           /\ result.value[1] = tiles
           /\ Len(result.value[2].instances) = Len(tiles)
           /\ \A i \in 1..Len(tiles) :
                 result.value[2].instances[i] =
                     IF model_type = CLASSIFICATION
                     THEN [image_bytes |-> [b64 |-> B64(fetches[i].r.content)]]
                     ELSE [inputs |-> [b64 |-> B64(fetches[i].r.content)]]

\* --------------------------------------------- arguments of the post-prediction calls

\* the caller's prediction id, an opaque string
PredictionIds == {"7"}

\* a payload built for a tile list, one instance per tile in tile order, each
\* from a raster of its own
SampleRaster(k, t) == <<k, t.x, t.y, t.z>>
SamplePayload(ts, mt) ==
    [instances |-> [k \in 1..Len(ts) |-> Instance(mt, SampleRaster(k, ts[k]))]]

\* json.dumps(payload) and the server's json parse give the payload back
PredictBody(instances) == [instances |-> instances]

\* ------------------------------------------------------------- save_prediction

SinkOutcomes == {Response(s, <<>>) : s \in {200, 500}} \cup {ConnectionError}

\* save_prediction(prediction_id, payload), called with the value the
\* post-prediction call returned
SavePrediction ==
    /\ pc = "predicted"
    /\ \E r \in SinkOutcomes :
          IF r.kind = "ConnectionError"
          THEN /\ err' = "ConnectionError" /\ pc' = "error" /\ UNCHANGED sink
          ELSE /\ sink' = Append(sink, [url |-> <<"/v1/model/prediction/", result.value.predictionId, "/tiles">>,
                                        predictions |-> result.value.predictions])
               /\ IF RaisesForStatus(r)
                  THEN /\ err' = "HTTPError" /\ pc' = "error"
                  ELSE /\ pc' = "saved" /\ UNCHANGED err
    /\ UNCHANGED <<event, det_box, tiles, meta, model_type, payload, inferences, idx, quad,
                   fetches, yielded, calls, response, pred_list, emitted, result>>

\* ----------------------------------------------------------- cl_post_prediction

\* label lists the caller may pass, one with a repeated label
InferenceLists == { <<"a", "b">>, <<"a">>, <<"b", "b">> }

\* prediction vectors a classification server may send
Vectors == { <<>>, <<10>>, <<30, 20>>, <<10, 20, 30>> }

ClOutcomes ==
    {Response(200, p) : p \in SeqsUpTo(Vectors, MaxBatch + 1)}
        \cup {Response(500, <<>>), ConnectionError}

\* pred_dict after "for j in range(len(vec)): pred_dict[inferences[j]] = vec[j]":
\* a later j overwrites an earlier one with the same label
PredDict(inf, vec) ==
    [l \in {inf[j] : j \in 1..Len(vec)} |->
        LET last == CHOOSE j \in 1..Len(vec) :
                        /\ inf[j] = l
                        /\ \A m \in (j + 1)..Len(vec) : inf[m] # l
        IN vec[last]]

\* the record wrongly keyed by the first tile of the batch
ClRecordFirstTile(ts, i, inf, vec, pid) ==
    [quadkey |-> quadkey(ts[1].x, ts[1].y, ts[1].z),
     predictions |-> PredDict(inf, vec),
     prediction_id |-> pid]

\* the record appended in pass i (1-based) of the loop over the tiles
ClRecord(ts, i, inf, vec, pid) ==
    [quadkey |-> quadkey(ts[i].x, ts[i].y, ts[i].z),
     predictions |-> PredDict(inf, vec),
     prediction_id |-> pid]

\* pass i raises IndexError: preds[i] or inferences[j] is out of range
ClPassRaises(i, preds, inf) == i > Len(preds) \/ Len(preds[i]) > Len(inf)

\* the number of passes that finish before one raises
RECURSIVE ClPassesDone(_, _, _, _)
ClPassesDone(i, n, preds, inf) ==
    IF i > n \/ ClPassRaises(i, preds, inf) THEN i - 1
    ELSE ClPassesDone(i + 1, n, preds, inf)

ClPostPrediction ==
    /\ pc = "cl_post_prediction"
    /\ \E pid \in PredictionIds, r \in ClOutcomes :
          /\ calls' = Append(calls, PredictBody(payload.instances))
          /\ response' = r
          /\ IF r.kind = "ConnectionError"
             THEN /\ err' = "ConnectionError" /\ pc' = "error"
                  /\ UNCHANGED <<pred_list, idx, result>>
             ELSE IF RaisesForStatus(r)
             THEN /\ err' = "HTTPError" /\ pc' = "error"
                  /\ UNCHANGED <<pred_list, idx, result>>
             ELSE LET preds == r.content
                      done == ClPassesDone(1, Len(tiles), preds, inferences)
                  IN /\ idx' = done
                     /\ pred_list' = [i \in 1..done |->
                                         ClRecord(tiles, i, inferences, preds[i], pid)]
                     /\ IF done < Len(tiles)
                        THEN /\ err' = "IndexError" /\ pc' = "error"
                             /\ UNCHANGED result
                        ELSE /\ result' = Returned([predictionId |-> pid, predictions |-> pred_list'])
                             /\ pc' = "predicted"
                             /\ UNCHANGED err
    /\ UNCHANGED <<event, det_box, tiles, meta, model_type, payload, inferences, quad,
                   fetches, yielded, emitted, sink>>

InitCl ==
    \E ts \in TileLists, inf \in InferenceLists :
        InitWith("cl_post_prediction", <<>>, ts, CLASSIFICATION,
                 SamplePayload(ts, CLASSIFICATION), inf)

NextCl == ClPostPrediction \/ SavePrediction

SpecCl == InitCl /\ [][NextCl]_vars

\* C1: a returned classification result has exactly one record per tile, the
\* i-th with the quadkey of tiles[i], and no record has a geometry field.
C1_OneRecordPerTile ==
    result.returned =>
        /\ Len(result.value.predictions) = Len(tiles)
        /\ \A i \in 1..Len(tiles) :
              /\ result.value.predictions[i].quadkey = quadkey(tiles[i].x, tiles[i].y, tiles[i].z)
              /\ DOMAIN result.value.predictions[i] = {"quadkey", "predictions", "prediction_id"}

\* a batch of two tiles with different quadkeys got its two records
C1_Witness ==
    /\ pc = "predicted"
    /\ Len(tiles) = 2
    /\ tiles[1] # tiles[2]
    /\ Len(result.value.predictions) = 2
    /\ result.value.predictions[2].predictions # <<>>

\* C2: cl_post_prediction returns records only when the server sent exactly
\* one prediction vector per tile; any other count ends in an error.
C2_MismatchIsFatal ==
    (response.kind # "none" /\ ~PredictFailed(response)
        /\ Len(response.content) # Len(tiles))
    => (~result.returned /\ sink = <<>>)

\* ------------------------------------------------------------------ tf_bbox_geo

\* the latitudes of the tile rows of zooms 0..3, in 1/10000 degree, by eighth
\* of the pyramid's height (mercantile.ul: degrees(atan(sinh(pi * (1 - 2 * y / 2^z)))))
RowLatitudes == << 850511, 791713, 665133, 409799, 0, -409799, -665133, -791713, -850511 >>

\* mercantile.bounds(x, y, z): (west, south, east, north), in 1/10000 degree
bounds(x, y, z) ==
    << (x * 3600000) \div Pow2(z) - 1800000,
       RowLatitudes[((y + 1) * 8) \div Pow2(z) + 1],
       ((x + 1) * 3600000) \div Pow2(z) - 1800000,
       RowLatitudes[(y * 8) \div Pow2(z) + 1] >>

\* affine.Affine(width / 256, 0.0, b[0], 0.0, 0 - height / 256, b[3]) as the
\* list [a.a, a.b, a.d, a.e, a.xoff, a.yoff]; every entry is the numerator of
\* a fraction with denominator 256
AffineList(b) ==
    LET width == b[3] - b[1]
        height == b[4] - b[2]
    IN << width, 0, 0, 0 - height, 256 * b[1], 256 * b[4] >>

\* shapely.geometry.box(minx, miny, maxx, maxy): the closed exterior ring
Box(minx, miny, maxx, maxy) ==
    << <<maxx, miny>>, <<maxx, maxy>>, <<minx, maxy>>, <<minx, miny>>, <<maxx, miny>> >>

\* shapely.affinity.affine_transform(geom, [a, b, d, e, xoff, yoff]):
\* x' = a x + b y + xoff, y' = d x + e y + yoff (coordinates in 1/256 of 1/10000 degree)
AffineTransform(ring, m) ==
    [k \in 1..Len(ring) |->
        << m[1] * ring[k][1] + m[2] * ring[k][2] + m[5],
           m[3] * ring[k][1] + m[4] * ring[k][2] + m[6] >>]

\* tf_bbox_geo without the reordering of the box
tf_bbox_geo_unordered(bbox, tile) ==
    AffineTransform(Box(bbox[1], bbox[2], bbox[3], bbox[4]),
                    AffineList(bounds(tile.x, tile.y, tile.z)))

tf_bbox_geo(bbox, tile) ==
    LET pred == <<bbox[2], bbox[1], bbox[4], bbox[3]>>
        b == bounds(tile.x, tile.y, tile.z)
    IN AffineTransform(Box(pred[1], pred[2], pred[3], pred[4]), AffineList(b))

\* ----------------------------------------------------------- od_post_prediction

\* normalized boxes [ymin, xmin, ymax, xmax] a detection server may send, in
\* quarters of the tile side (1 is 0.25)
SampleBoxes == << <<1, 1, 3, 3>>, <<0, 0, 4, 4>>, <<0, 1, 2, 4>> >>

\* a detection response body: num_detections in halves (3 is 1.5), ns scores
\* and nb boxes, the boxes taken from SampleBoxes starting after position off
Detection(nd2, ns, nb, off) ==
    [num_detections_halves |-> nd2,
     detection_scores |-> [j \in 1..ns |-> 100 - 10 * j - off],
     detection_boxes |-> [j \in 1..nb |-> SampleBoxes[((j - 1 + off) % 3) + 1]]]

\* any num_detections up to MaxDet, whole or not; up to MaxDet boxes; the
\* scores array full or one short
Detections ==
    {Detection(nd2, ns, nb, off) :
        nd2 \in 0..(2 * MaxDet), ns \in {MaxDet - 1, MaxDet}, nb \in 0..MaxDet, off \in 0..1}

OdOutcomes == {Response(200, d) : d \in Detections} \cup {Response(500, <<>>), ConnectionError}

\* int(preds["num_detections"])
NumDetections(d) == d.num_detections_halves \div 2

\* seq[:n] for n >= 0
Slice(seq, n) == SubSeq(seq, 1, IF n < Len(seq) THEN n ELSE Len(seq))

\* the boxes kept when the slice to num_detections is left out
OdBoxesUnsliced(d) == d.detection_boxes

\* bboxes = preds['detection_boxes'][:int(preds["num_detections"])]
OdBoxes(d) == Slice(d.detection_boxes, NumDetections(d))

\* [c * 256 for c in bbox], c in quarters
Scale256(bbox) == [k \in 1..Len(bbox) |-> (bbox[k] * 256) \div 4]

\* the geometry od_post_prediction gives one detection: the box scaled by
\* 256, through tf_bbox_geo; geojson.Feature(...).geometry keeps the ring
OdGeometry(box, tile) == tf_bbox_geo(Scale256(box), tile)

\* the record appended for detection j of the tile
OdRecord(tile, d, j, pid) ==
    [quadkey |-> quadkey(tile.x, tile.y, tile.z),
     quadkey_geom |-> OdGeometry(OdBoxes(d)[j], tile),
     predictions |-> [default |-> d.detection_scores[j]],
     prediction_id |-> pid]

\* preds["detection_scores"][j] is out of range for some kept box
OdPassRaises(d) ==
    d.num_detections_halves # 0 /\ Len(OdBoxes(d)) > Len(d.detection_scores)

\* the records one pass appends, given that it does not raise
OdRecords(tile, d, pid) ==
    IF d.num_detections_halves = 0 THEN <<>>
    ELSE [j \in 1..Len(OdBoxes(d)) |-> OdRecord(tile, d, j, pid)]

\* the request body carrying the whole payload
OdRequestAll(pl, i) == PredictBody(pl.instances)

\* the body of the request of pass i (1-based): {"instances": [payload["instances"][i]]}
OdRequest(pl, i) == PredictBody(<<pl.instances[i]>>)

\* the request of the next pass is posted
OdSend ==
    /\ pc = "od_post_prediction"
    /\ idx < Len(tiles)
    /\ IF idx + 1 > Len(payload.instances)
       THEN /\ err' = "IndexError" /\ pc' = "error" /\ UNCHANGED <<calls, response>>
       ELSE /\ calls' = Append(calls, OdRequest(payload, idx + 1))
            /\ response' = NoResponse
            /\ pc' = "od_wait"
            /\ UNCHANGED err
    /\ UNCHANGED <<event, det_box, tiles, meta, model_type, payload, inferences, idx, quad,
                   fetches, yielded, pred_list, emitted, result, sink>>

\* the response arrives and the rest of the pass runs
OdReceive ==
    /\ pc = "od_wait"
    /\ \E pid \in PredictionIds, r \in OdOutcomes :
          /\ response' = r
          /\ IF r.kind = "ConnectionError"
             THEN /\ err' = "ConnectionError" /\ pc' = "error"
                  /\ UNCHANGED <<pred_list, emitted, idx>>
             ELSE IF RaisesForStatus(r)
             THEN /\ err' = "HTTPError" /\ pc' = "error"
                  /\ UNCHANGED <<pred_list, emitted, idx>>
             ELSE IF OdPassRaises(r.content)
             THEN /\ err' = "IndexError" /\ pc' = "error"
                  /\ pred_list' = pred_list \o
                        [j \in 1..Len(r.content.detection_scores) |->
                            OdRecord(tiles[idx + 1], r.content, j, pid)]
                  /\ UNCHANGED <<emitted, idx>>
             ELSE /\ pred_list' = pred_list \o OdRecords(tiles[idx + 1], r.content, pid)
                  /\ emitted' = Append(emitted, OdRecords(tiles[idx + 1], r.content, pid))
                  /\ idx' = idx + 1
                  /\ pc' = "od_post_prediction"
                  /\ UNCHANGED err
    /\ UNCHANGED <<event, det_box, tiles, meta, model_type, payload, inferences, quad,
                   fetches, yielded, calls, result, sink>>

OdReturn ==
    /\ pc = "od_post_prediction"
    /\ idx = Len(tiles)
    /\ \E pid \in PredictionIds :
          result' = Returned([predictionId |-> pid, predictions |-> pred_list])
    /\ pc' = "predicted"
    /\ UNCHANGED <<event, det_box, tiles, meta, model_type, payload, inferences, idx, quad,
                   fetches, yielded, calls, response, pred_list, emitted, sink, err>>

\* the payloads od_post_prediction is given: the one built for the tiles, or
\* one that lacks the last instance
OdPayloads(ts) ==
    {SamplePayload(ts, OBJECT_DETECT)} \cup
    (IF ts = <<>> THEN {}
     ELSE {SamplePayload(SubSeq(ts, 1, Len(ts) - 1), OBJECT_DETECT)})

\* the tile lists of the detection runs
OdTileLists == SeqsUpTo({Tile(1, 0, 1), Tile(2, 1, 2)}, MaxBatch)

InitOd ==
    \E ts \in OdTileLists :
        \E pl \in OdPayloads(ts) :
            InitWith("od_post_prediction", <<>>, ts, OBJECT_DETECT, pl, <<>>)

NextOd == OdSend \/ OdReceive \/ OdReturn \/ SavePrediction

SpecOd == InitOd /\ [][NextOd]_vars

RECURSIVE Flatten(_)
Flatten(ss) == IF ss = <<>> THEN <<>> ELSE Head(ss) \o Flatten(Tail(ss))

\* the latest predict call was answered with a detection document
OdAnswered == response.kind # "none" /\ ~PredictFailed(response)

\* the number (1-based) of the predict call the latest response answers
LastAnswered == Len(calls)

\* the pass of the latest answered predict call ran to its end
OdPassFinished == OdAnswered /\ idx >= LastAnswered

\* C6: the pass for a tile appends at most num_detections (truncated) records,
\* none and without an error when num_detections is 0; every record carries the
\* tile's quadkey, {"default": score_j} with the j-th score of the response,
\* and the prediction id; the returned list is exactly what the passes appended.
C6_AtMostNumDetections ==
    /\ OdAnswered /\ response.content.num_detections_halves = 0
          => (OdPassFinished /\ emitted[LastAnswered] = <<>>)
    /\ OdPassFinished =>
          LET k == LastAnswered
              d == response.content
          IN /\ 2 * Len(emitted[k]) <= d.num_detections_halves
             /\ \A j \in 1..Len(emitted[k]) :
                   /\ emitted[k][j].quadkey = quadkey(tiles[k].x, tiles[k].y, tiles[k].z)
                   /\ emitted[k][j].predictions = [default |-> d.detection_scores[j]]
                   /\ emitted[k][j].prediction_id \in PredictionIds
    /\ err # "IndexError" => pred_list = Flatten(emitted)
    /\ result.returned => result.value.predictions = Flatten(emitted)

\* a response reporting 1.5 detections with two boxes gave exactly one record
C6_Witness ==
    /\ OdPassFinished
    /\ response.content.num_detections_halves = 3
    /\ Len(response.content.detection_boxes) = 2
    /\ Len(emitted[LastAnswered]) = 1
    /\ Len(emitted) = 2 /\ emitted[1] = <<>>

\* the points of a ring
RingPoints(ring) == {ring[k] : k \in 1..Len(ring)}

\* the rectangle the claim names for a normalized box [ymin, xmin, ymax, xmax]
\* (in quarters) on a tile, in 1/256 of the unit of the bounds: longitudes
\* west + 256 xmin pixel_width and west + 256 xmax pixel_width, latitudes
\* north - 256 ymin pixel_height and north - 256 ymax pixel_height
ClaimedCorners(box, tile) ==
    LET b == bounds(tile.x, tile.y, tile.z)
        lon(c) == 256 * b[1] + (64 * c) * (b[3] - b[1])
        lat(c) == 256 * b[4] - (64 * c) * (b[4] - b[2])
    IN {<<lon(box[2]), lat(box[1])>>, <<lon(box[4]), lat(box[1])>>,
        <<lon(box[2]), lat(box[3])>>, <<lon(box[4]), lat(box[3])>>}

\* the corners of a tile's bounds, in 1/256 of their unit
BoundsCorners(tile) ==
    LET b == bounds(tile.x, tile.y, tile.z)
    IN {<<256 * b[1], 256 * b[2]>>, <<256 * b[1], 256 * b[4]>>,
        <<256 * b[3], 256 * b[2]>>, <<256 * b[3], 256 * b[4]>>}

\* consecutive points of a closed ring differ in one coordinate only
AxisAligned(ring) ==
    /\ ring[1] = ring[Len(ring)]
    /\ \A k \in 1..(Len(ring) - 1) :
          ring[k][1] = ring[k + 1][1] \/ ring[k][2] = ring[k + 1][2]

\* every tile of zooms 0..MaxZoom
AllTiles == UNION {{Tile(x, y, z) : x \in 0..(Pow2(z) - 1), y \in 0..(Pow2(z) - 1)} : z \in 0..MaxZoom}

\* every box [ymin, xmin, ymax, xmax] whose coordinates are quarters in [0, 1]
AllBoxes == [1..4 -> 0..4]

InitGeo ==
    /\ pc = "tf_bbox_geo"
    /\ \E t \in AllTiles : tiles = <<t>>
    /\ det_box \in AllBoxes
    /\ event = <<>> /\ model_type = OBJECT_DETECT /\ payload = <<>> /\ inferences = <<>>
    /\ meta = NoValue /\ idx = 0 /\ quad = 0
    /\ fetches = <<>> /\ yielded = <<>> /\ calls = <<>> /\ response = NoResponse
    /\ pred_list = <<>> /\ emitted = <<>> /\ result = NoResult /\ sink = <<>> /\ err = NoError

GeoOfDetection ==
    /\ pc = "tf_bbox_geo"
    /\ result' = Returned(OdGeometry(det_box, tiles[1]))
    /\ pc' = "returned"
    /\ UNCHANGED <<event, det_box, tiles, meta, model_type, payload, inferences, idx, quad,
                   fetches, yielded, calls, response, pred_list, emitted, sink, err>>

NextGeo == GeoOfDetection

SpecGeo == InitGeo /\ [][NextGeo]_vars

\* C7: the geometry of a detection is the axis-aligned rectangle the claim
\* names for its box, x mapped to longitude and y to latitude with the row
\* axis flipped; the full-tile box gives exactly the tile's bounds.
C7_GeometryOfBox ==
    (pc = "returned") =>
        /\ AxisAligned(result.value)
        /\ RingPoints(result.value) = ClaimedCorners(det_box, tiles[1])
        /\ det_box = <<0, 0, 4, 4>> => RingPoints(result.value) = BoundsCorners(tiles[1])

\* the geometry of a box whose x and y extents differ, on a tile with x # y
C7_Witness ==
    /\ pc = "returned"
    /\ tiles[1] = Tile(2, 1, 2)
    /\ det_box = <<0, 1, 2, 4>>
    /\ Cardinality(RingPoints(result.value)) = 4

\* C10: the k-th predict call carries the single instance payload.instances[k],
\* the one built for tiles[k]; a call goes out only when every earlier pass is
\* over, and a call that returned has made exactly len(tiles) calls.
C10_OneCallPerTileInOrder ==
    /\ \A k \in 1..Len(calls) :
          /\ calls[k] = [instances |-> <<payload.instances[k]>>]
          /\ calls[k].instances[1] = Instance(OBJECT_DETECT, SampleRaster(k, tiles[k]))
    /\ pc = "od_wait" => Len(calls) = idx + 1
    /\ pc = "od_post_prediction" => Len(calls) = idx
    /\ Len(calls) <= idx + 1
    /\ result.returned => Len(calls) = Len(tiles)

\* a batch of two different tiles was served by two calls
C10_Witness ==
    /\ pc = "predicted"
    /\ Len(tiles) = 2
    /\ tiles[1] # tiles[2]
    /\ Len(calls) = 2

\* ------------------------------------------------------------- every call

Init ==
    InitTiles \/ InitImages \/ InitSuper \/ InitPayload \/ InitCl \/ InitOd \/ InitGeo

Next ==
    \/ GetTiles
    \/ GetMeta \/ GetPredictionPayload
    \/ GetImagesStep \/ GetImagesStop
    \/ SuperFetch \/ SuperYield \/ SuperStop
    \/ ClPostPrediction
    \/ OdSend \/ OdReceive \/ OdReturn \/ SavePrediction
    \/ GeoOfDetection

Spec == Init /\ [][Next]_vars

====
